---- MODULE Spec2Model ----
(***************************************************************************)
(* libtalley: the unit-input parser (libtalley/units.py, pint based) and   *)
(* the FEMA P695 table lookups (fema_p695.py), as a state machine whose    *)
(* steps are calls of the library's functions.  The library is stateless:  *)
(* the state records the last call made and what it returned, the tables  *)
(* of fema_p695 as they stand, what the call wrote to stderr, and the      *)
(* caller's Quantity as the call left it.  A second specification,         *)
(* ConcSpec, runs the calls of concurrent callers statement by statement:  *)
(* threads holds each caller's position and locals, parsers the            *)
(* UnitInputParser objects the calls construct.                            *)
(*                                                                         *)
(* Numbers.  Magnitudes are exact rationals [n, d].  Periods T are counted *)
(* in hundredths of a second, table ordinates in thousandths.              *)
(***************************************************************************)
EXTENDS Integers, Sequences, FiniteSets, TLC

VARIABLES pc, call, result, tables, stderr, given, same, threads, parsers

vars == <<pc, call, result, tables, stderr, given, same, threads, parsers>>

(***************************************************************************)
(* Bounds of the model                                                     *)
(***************************************************************************)
\* periods handed to ssf run from SsfTMargin hundredths of a second below
\* the first period of its grid to SsfTMargin above the last
SsfTMargin == 5
\* ductilities handed to ssf run from MuMargin tenths below the first
\* ductility of its grid to MuMargin above the last
MuMargin == 3
\* scalar input magnitudes are the integers -1 .. MaxVal
MaxVal == 3
\* array inputs have two elements, each in 0 .. MaxArrVal
MaxArrVal == 1
\* periods handed to sf1 are 0 .. MaxT hundredths of a second
MaxT == 520
\* response modification factors handed to seismic_response_coeff are the
\* integers 0 .. MaxR
MaxR == 18
\* texts handed to a Boxer have up to MaxTextLen characters
MaxTextLen == 4
\* box widths handed to a Boxer are 3 .. MaxWidth (or none: the default)
MaxWidth == 8
\* periods handed to seismic_response_coeff are 0 .. MaxCsStep steps of
\* five hundredths of a second, and the periods one thousandth above a Ts
MaxCsStep == 82

(***************************************************************************)
(* Exact rational arithmetic                                               *)
(***************************************************************************)
Abs(x) == IF x < 0 THEN -x ELSE x

RECURSIVE GCD(_, _)
GCD(a, b) == IF b = 0 THEN a ELSE GCD(b, a % b)

\* the rational n/d in lowest terms with a positive denominator (d # 0)
Rat(n, d) ==
    LET g == GCD(Abs(n), Abs(d))
        s == IF d < 0 THEN -1 ELSE 1
    IN  [n |-> (s * n) \div g, d |-> (s * d) \div g]

RMul(a, b) == Rat(a.n * b.n, a.d * b.d)
RDiv(a, b) == Rat(a.n * b.d, a.d * b.n)
RAdd(a, b) == Rat(a.n * b.d + b.n * a.d, a.d * b.d)
RSub(a, b) == Rat(a.n * b.d - b.n * a.d, a.d * b.d)
RLe(a, b)  == a.n * b.d <= b.n * a.d
RLt(a, b)  == a.n * b.d < b.n * a.d

(***************************************************************************)
(* The unit registry: pint's registry as the parser uses it.  Each unit    *)
(* has a dimensionality and a factor to the base unit of its dimension     *)
(* (mm, s, psi).                                                           *)
(***************************************************************************)
None == "None"

Units == {"inch", "ft", "mm", "s", "psi", "ksi", "dimensionless"}

Dimensionality(u) ==
    CASE u \in {"inch", "ft", "mm"} -> "[length]"
      [] u = "s"                    -> "[time]"
      [] u \in {"psi", "ksi"}       -> "[pressure]"
      [] OTHER                      -> "dimensionless"

Factor(u) ==
    CASE u = "inch" -> Rat(127, 5)
      [] u = "ft"   -> Rat(1524, 5)
      [] u = "ksi"  -> Rat(1000, 1)
      [] OTHER      -> Rat(1, 1)

(***************************************************************************)
(* Magnitudes: a scalar or an array of rationals.                          *)
(***************************************************************************)
Scalar(k) == [arr |-> FALSE, v |-> <<Rat(k, 1)>>]
Array(s)  == [arr |-> TRUE, v |-> [i \in DOMAIN s |-> Rat(s[i], 1)]]

Scale(m, r) == [arr |-> m.arr, v |-> [i \in DOMAIN m.v |-> RMul(m.v[i], r)]]

NoMag == [arr |-> FALSE, v |-> <<>>]

(***************************************************************************)
(* What a call returns: a Quantity (magnitude and unit), a bare magnitude, *)
(* or an exception.                                                        *)
(***************************************************************************)
Quantity(m, u) == [tag |-> "Quantity", m |-> m, u |-> u, err |-> None]
Bare(m)        == [tag |-> "bare", m |-> m, u |-> None, err |-> None]
Raise(e)       == [tag |-> "raise", m |-> NoMag, u |-> None, err |-> e]

\* raise e(msg), for the exceptions whose message tells them apart
RaiseMsg(e, msg) ==
    [tag |-> "raise", m |-> NoMag, u |-> None, err |-> e, msg |-> msg]

IsQuantity(r) == r.tag = "Quantity"
Raised(r, e)  == r.tag = "raise" /\ r.err = e

(***************************************************************************)
(* Inputs of the parser (the four input shapes).  A tuple is its length,   *)
(* its first item (a value) and its second item (a unit name, which may    *)
(* be one the registry does not define).  A string is 'v u', or 'v' alone  *)
(* when u is None.                                                         *)
(***************************************************************************)
ScalarMags == {Scalar(k) : k \in -1 .. MaxVal}
ArrayMags  == {Array(s) : s \in [1 .. 2 -> 0 .. MaxArrVal]}
Mags       == ScalarMags \cup ArrayMags

NumIn(m)         == [kind |-> "number", m |-> m, u |-> None, len |-> 0]
QtyIn(m, u)      == [kind |-> "Quantity", m |-> m, u |-> u, len |-> 0]
StrIn(m, u)      == [kind |-> "str", m |-> m, u |-> u, len |-> 0]
TupleIn(l, m, u) == [kind |-> "tuple", m |-> m, u |-> u, len |-> l]

TupleUnits == Units \cup {"bogus"}

Inputs ==
    {NumIn(m) : m \in Mags}
    \cup {QtyIn(m, u) : m \in Mags, u \in Units}
    \cup {StrIn(m, u) : m \in ScalarMags, u \in Units \cup {None}}
    \cup {TupleIn(0, NoMag, None)}
    \cup {TupleIn(1, m, None) : m \in Mags}
    \cup {TupleIn(l, m, u) : l \in 2 .. 3, m \in Mags, u \in TupleUnits}

\* the input has units of its own
CarriesUnits(in) ==
    \/ in.kind = "Quantity"
    \/ in.kind = "str" /\ in.u # None
    \/ in.kind = "tuple" /\ in.len = 2 /\ in.u \in Units

(***************************************************************************)
(* UnitInputParser                                                         *)
(***************************************************************************)
\* registry.Quantity(value, units)
RegistryQuantity(m, u) ==
    IF u \in Units THEN Quantity(m, u) ELSE Raise("UndefinedUnitError")

\* parse_expression that evaluates the number and drops the unit after it
ParseExpressionDropsUnit(in) == Bare(in.m)

\* registry.parse_expression(in_): the product of the number and the unit;
\* an expression with no unit in it evaluates to the plain number
ParseExpression(in) ==
    IF in.u = None THEN Bare(in.m) ELSE RegistryQuantity(in.m, in.u)

\* _parse_internal that tags a bare number as dimensionless, whatever the
\* default units are
ParseInternalIgnoresDefault(in, units) ==
    CASE in.kind = "str"      -> ParseExpression(in)
      [] in.kind = "Quantity" -> Quantity(in.m, in.u)
      [] in.kind = "tuple"    ->
            IF in.len # 2 THEN Raise("ValueError")
            ELSE RegistryQuantity(in.m, in.u)
      [] OTHER                ->
            IF units = None THEN Raise("ValueError")
            ELSE RegistryQuantity(in.m, "dimensionless")

\* _parse_internal that passes a bare number through as dimensionless when
\* no default units are set
ParseInternalPassThrough(in, units) ==
    CASE in.kind = "str"      -> ParseExpression(in)
      [] in.kind = "Quantity" -> Quantity(in.m, in.u)
      [] in.kind = "tuple"    ->
            IF in.len # 2 THEN Raise("ValueError")
            ELSE RegistryQuantity(in.m, in.u)
      [] OTHER                ->
            IF units = None THEN Quantity(in.m, "dimensionless")
            ELSE RegistryQuantity(in.m, units)

\* _parse_internal that only rejects tuples shorter than 2
ParseInternalLongTuple(in, units) ==
    CASE in.kind = "str"      -> ParseExpression(in)
      [] in.kind = "Quantity" -> Quantity(in.m, in.u)
      [] in.kind = "tuple"    ->
            IF in.len < 2 THEN Raise("ValueError")
            ELSE RegistryQuantity(in.m, in.u)
      [] OTHER                ->
            IF units = None THEN Raise("ValueError")
            ELSE RegistryQuantity(in.m, units)

\* _parse_internal, dispatched on the type of in_
ParseInternal(in, units) ==
    CASE in.kind = "str"      -> ParseExpression(in)
      [] in.kind = "Quantity" -> Quantity(in.m, in.u)
      [] in.kind = "tuple"    ->
            IF in.len # 2 THEN Raise("ValueError")
            ELSE RegistryQuantity(in.m, in.u)
      [] OTHER                ->
            IF units = None THEN Raise("ValueError")
            ELSE RegistryQuantity(in.m, units)

\* _get_units: an object with no units attribute counts as dimensionless
GetUnits(q) == IF IsQuantity(q) THEN q.u ELSE "dimensionless"

\* _check_dimensions that compares the units instead of their dimensions
CheckUnitsRaises(q, units) == GetUnits(q) # units

\* _check_dimensions(a, b): TRUE when it raises DimensionalityError
CheckDimensionsRaises(q, units) ==
    Dimensionality(GetUnits(q)) # Dimensionality(units)

\* q.to(units) without the dimensionality check
ToNoDimCheck(q, units) ==
    IF ~IsQuantity(q) THEN Raise("AttributeError")
    ELSE IF q.u = units THEN q
    ELSE Quantity(Scale(q.m, RDiv(Factor(q.u), Factor(units))), units)

\* q.to(units) that retags the magnitude without scaling it
ToNoScale(q, units) ==
    IF ~IsQuantity(q) THEN Raise("AttributeError")
    ELSE IF Dimensionality(q.u) # Dimensionality(units)
    THEN Raise("DimensionalityError")
    ELSE Quantity(q.m, units)

\* q.to(units)
To(q, units) ==
    IF ~IsQuantity(q) THEN Raise("AttributeError")
    ELSE IF Dimensionality(q.u) # Dimensionality(units)
    THEN Raise("DimensionalityError")
    ELSE IF q.u = units THEN q
    ELSE Quantity(Scale(q.m, RDiv(Factor(q.u), Factor(units))), units)

\* parse that checks dimensions whenever it does not convert
ParseAlwaysChecks(in, default_units, override, convert, check_dims) ==
    LET units == IF override = None THEN default_units ELSE override
        q     == ParseInternal(in, units)
    IN  IF q.tag = "raise" \/ units = None THEN q
        ELSE IF ~convert /\ CheckDimensionsRaises(q, units)
        THEN Raise("DimensionalityError")
        ELSE IF convert THEN To(q, units)
        ELSE q

\* UnitInputParser(default_units, convert, check_dims).parse(in_, units)
Parse(in, default_units, override, convert, check_dims) ==
    LET units == IF override = None THEN default_units ELSE override
        q     == ParseInternal(in, units)
    IN  IF q.tag = "raise" \/ units = None THEN q
        ELSE IF check_dims /\ ~convert /\ CheckDimensionsRaises(q, units)
        THEN Raise("DimensionalityError")
        ELSE IF convert THEN To(q, units)
        ELSE q

\* process_unit_input(in_, default_units, convert, check_dims)
ProcessUnitInput(in, default_units, convert, check_dims) ==
    Parse(in, default_units, None, convert, check_dims)

\* convert that returns the Quantity without stripping its unit
ConvertKeepsUnit(value, units) == Parse(value, units, None, TRUE, FALSE)

\* convert(value, units): the bare magnitude of the converted quantity
Convert(value, units) ==
    LET q == ProcessUnitInput(value, units, TRUE, FALSE)
    IN  IF q.tag = "raise" THEN q
        ELSE IF ~IsQuantity(q) THEN Raise("AttributeError")
        ELSE Bare(q.m)

(***************************************************************************)
(* The caller's Quantity.  _parse_internal hands a Quantity back as it is  *)
(* (the same object); _check_dimensions reads its units; q.to(units)       *)
(* builds a new Quantity and leaves its receiver alone.                    *)
(***************************************************************************)
\* the receiver of an in-place conversion (q.ito(units)) after the call
ItoReceiver(q, units) ==
    IF To(q, units).tag = "raise" THEN q ELSE To(q, units)

\* the receiver of q.to(units) after the call
ToReceiver(q, units) == q

\* the Quantity handed to parse, after the call (None: no Quantity given)
GivenAfterParse(in, default_units, override, convert, check_dims) ==
    LET units == IF override = None THEN default_units ELSE override
        q     == ParseInternal(in, units)
    IN  IF in.kind # "Quantity" THEN None
        ELSE IF units # None /\ convert THEN ToReceiver(q, units)
        ELSE q

\* TRUE when parse returns the very object it was given
ParseReturnsGiven(in, default_units, override, convert, check_dims) ==
    LET units == IF override = None THEN default_units ELSE override
    IN  /\ in.kind = "Quantity"
        /\ Parse(in, default_units, override, convert, check_dims).tag
              # "raise"
        /\ ~(units # None /\ convert)

\* the Quantity handed to convert, after the call
GivenAfterConvert(value, units) ==
    GivenAfterParse(value, units, None, TRUE, FALSE)

(***************************************************************************)
(* The older process_unit_input, on unyt (libtalley/units.py).  It takes   *)
(* the three input shapes its docstring lists; it has no check_dims.       *)
(***************************************************************************)
\* unyt.unyt_array(value, units): no units given makes it dimensionless
UnytArray(m, u) ==
    IF u = None THEN Quantity(m, "dimensionless")
    ELSE IF u \in Units THEN Quantity(m, u)
    ELSE Raise("UnitParseError")

\* q.to(units) of unyt
UnytTo(q, units) ==
    IF units \notin Units THEN Raise("UnitParseError")
    ELSE IF Dimensionality(q.u) # Dimensionality(units)
    THEN Raise("UnitConversionError")
    ELSE IF q.u = units THEN q
    ELSE Quantity(Scale(q.m, RDiv(Factor(q.u), Factor(units))), units)

LegacyProcessUnitInput(in, default_units, convert) ==
    LET q == CASE in.kind = "Quantity" -> Quantity(in.m, in.u)
               [] in.kind = "tuple"    ->
                     IF in.len = 2 THEN UnytArray(in.m, in.u)
                     ELSE Raise("ValueError")
               [] OTHER                -> UnytArray(in.m, default_units)
    IN  IF q.tag = "raise" THEN q
        ELSE IF convert THEN UnytTo(q, default_units)
        ELSE q

LegacyInputs == {in \in Inputs : in.kind # "str"}

(***************************************************************************)
(* fema_p695: mapped seismic parameters.  A value is kept exactly as       *)
(* milli/1000 + e11/10^11 (0.59999999999 is 600 thousandths less 1e-11).   *)
(***************************************************************************)
MV(milli) == [milli |-> milli, e11 |-> 0]

MappedDmax ==
    [ss |-> MV(1500), s1 |-> [milli |-> 600, e11 |-> -1], fa |-> MV(1000),
     fv |-> MV(1500), sms |-> MV(1500), sm1 |-> MV(900), sds |-> MV(1000),
     sd1 |-> MV(600), ts |-> MV(600)]

MappedDmin ==
    [ss |-> MV(550), s1 |-> MV(132), fa |-> MV(1360), fv |-> MV(2280),
     sms |-> MV(750), sm1 |-> MV(300), sds |-> MV(500), sd1 |-> MV(200),
     ts |-> MV(400)]

MappedCmin ==
    [ss |-> MV(330), s1 |-> MV(83), fa |-> MV(1530), fv |-> MV(2400),
     sms |-> MV(500), sm1 |-> MV(200), sds |-> MV(330), sd1 |-> MV(133),
     ts |-> MV(400)]

MappedBmin ==
    [ss |-> MV(156), s1 |-> MV(42), fa |-> MV(1600), fv |-> MV(2400),
     sms |-> MV(250), sm1 |-> MV(100), sds |-> MV(167), sd1 |-> MV(67),
     ts |-> MV(400)]

\* The module's tables are objects: a dictionary maps each key to a table
\* object (an index into the heap of tables), and an alias is a second key
\* for the same object.
\* _mapped_value_dict: four parameter sets, and the keys "cmax" and "bmax"
\* bound to the objects of "dmin" and "cmin"
MappedHeap == <<MappedDmax, MappedDmin, MappedCmin, MappedBmin>>

\* the keys, with "cmax" bound to the object of "cmin"
MappedRefCmaxIsCmin ==
    [dmax |-> 1, dmin |-> 2, cmin |-> 3, bmin |-> 4, cmax |-> 3, bmax |-> 3]

MappedRef ==
    [dmax |-> 1, dmin |-> 2, cmin |-> 3, bmin |-> 4, cmax |-> 2, bmax |-> 3]

\* _mapped_value_dict as the functions read it
MappedValueDict ==
    [k \in DOMAIN tables.mapped_ref |->
        tables.mapped_heap[tables.mapped_ref[k]]]

\* the category names callers pass: the six categories as documented, two
\* other spellings of them, and a name that is no category
SdcNames ==
    {"Dmax", "Dmin", "Cmax", "Cmin", "Bmax", "Bmin", "dmax", "CMIN", "Emax"}

\* the parameter names callers pass
ValueNames ==
    {"SS", "S1", "Fa", "Fv", "SMS", "SM1", "SDS", "SD1", "Ts", "sds", "Tl"}

\* str.lower() on the names above
Lower(s) ==
    CASE s \in {"Dmax", "dmax"} -> "dmax"
      [] s = "Dmin" -> "dmin"
      [] s = "Cmax" -> "cmax"
      [] s \in {"Cmin", "CMIN"} -> "cmin"
      [] s = "Bmax" -> "bmax"
      [] s = "Bmin" -> "bmin"
      [] s = "Emax" -> "emax"
      [] s = "SS" -> "ss"
      [] s = "S1" -> "s1"
      [] s = "Fa" -> "fa"
      [] s = "Fv" -> "fv"
      [] s = "SMS" -> "sms"
      [] s = "SM1" -> "sm1"
      [] s \in {"SDS", "sds"} -> "sds"
      [] s = "SD1" -> "sd1"
      [] s = "Ts" -> "ts"
      [] s = "Tl" -> "tl"
      [] OTHER -> s

\* a plain number as a result
Num(r) == Bare([arr |-> FALSE, v |-> <<r>>])
\* a mapped value as a result
Mapped(v) == [tag |-> "mapped", m |-> NoMag, u |-> None, err |-> None, mv |-> v]

\* mapped_value(value, sdc): a missing key is a KeyError
MappedValue(value, sdc) ==
    IF Lower(sdc) \notin DOMAIN MappedValueDict THEN Raise("KeyError")
    ELSE IF Lower(value) \notin DOMAIN MappedValueDict[Lower(sdc)]
    THEN Raise("KeyError")
    ELSE Mapped(MappedValueDict[Lower(sdc)][Lower(value)])

(***************************************************************************)
(* scipy.interpolate.interp1d(x, y)(x_new), linear, bounds_error on:       *)
(* x and x_new are integers in the unit of the table's axis, y rationals.  *)
(***************************************************************************)
\* numpy.searchsorted(x, x_new), side 'left': how many entries are < x_new
SearchSorted(xs, x) == Cardinality({i \in DOMAIN xs : xs[i] < x})

Clip(i, lo, hi) == IF i < lo THEN lo ELSE IF i > hi THEN hi ELSE i

\* interp1d that takes the searchsorted index as the upper row without
\* stepping past it: it interpolates in the interval before the bracket
Interp1dOffByOne(xs, ys, x) ==
    IF x < xs[1] \/ x > xs[Len(xs)] THEN Raise("ValueError")
    ELSE LET hi    == Clip(SearchSorted(xs, x), 2, Len(xs))
             lo    == hi - 1
             slope == RDiv(RSub(ys[hi], ys[lo]), Rat(xs[hi] - xs[lo], 1))
         IN  Num(RAdd(RMul(slope, Rat(x - xs[lo], 1)), ys[lo]))

Interp1d(xs, ys, x) ==
    IF x < xs[1] \/ x > xs[Len(xs)] THEN Raise("ValueError")
    ELSE LET hi    == Clip(SearchSorted(xs, x), 1, Len(xs) - 1) + 1
             lo    == hi - 1
             slope == RDiv(RSub(ys[hi], ys[lo]), Rat(xs[hi] - xs[lo], 1))
         IN  Num(RAdd(RMul(slope, Rat(x - xs[lo], 1)), ys[lo]))

(***************************************************************************)
(* sf1 and smt.  T is in hundredths of a second.                           *)
(***************************************************************************)
\* _T_INTERP, in hundredths
T_INTERP ==
    <<25, 30, 35, 40, 45, 50, 60, 70, 80, 90, 100, 120, 140, 160, 180, 200,
      220, 240, 260, 280, 300, 350, 400, 450, 500>>

\* _SNRT_INTERP, in thousandths
SNRT_MILLI ==
    <<785, 781, 767, 754, 755, 742, 607, 541, 453, 402, 350, 303, 258, 210,
      169, 149, 134, 119, 106, 92, 81, 63, 53, 46, 41>>

SNRT_INTERP == [i \in DOMAIN SNRT_MILLI |-> Rat(SNRT_MILLI[i], 1000)]

\* smt(T, sdc)
Smt(T, sdc) ==
    LET SM1 == MappedValue("SM1", sdc)
        SMS == MappedValue("SMS", sdc)
    IN  IF SM1.tag = "raise" THEN SM1
        ELSE IF SMS.tag = "raise" THEN SMS
        ELSE IF RLe(Rat(T, 100),
                    RDiv(Rat(SM1.mv.milli, 1000), Rat(SMS.mv.milli, 1000)))
        THEN Num(Rat(SMS.mv.milli, 1000))
        ELSE Num(RDiv(Rat(SM1.mv.milli, 1000), Rat(T, 100)))

\* the period check with the table's two ends accepted
Sf1OutOfRangeInclusive(T) ==
    T < tables.t_interp[1] \/ T > tables.t_interp[Len(tables.t_interp)]

\* the period check that opens sf1: TRUE when T is out of range
Sf1OutOfRange(T) ==
    T <= tables.t_interp[1] \/ T >= tables.t_interp[Len(tables.t_interp)]

\* sf1(T, sdc)
Sf1(T, sdc) ==
    IF Sf1OutOfRange(T) THEN Raise("ValueError")
    ELSE LET SNRT == Interp1d(tables.t_interp, tables.snrt_interp, T)
             SMT  == Smt(T, sdc)
         IN  IF SNRT.tag = "raise" THEN SNRT
             ELSE IF SMT.tag = "raise" THEN SMT
             ELSE Num(RDiv(SMT.m.v[1], SNRT.m.v[1]))

(***************************************************************************)
(* ssf: the spectral shape factor grids, in hundredths.  Rows are periods  *)
(* (_Y_T), columns are ductilities (_X_MU_T).                              *)
(***************************************************************************)
Z_SSF_DMAX ==
    <<<<100, 105, 110, 113, 118, 122, 128, 133>>,
      <<100, 105, 111, 114, 120, 124, 130, 136>>,
      <<100, 106, 111, 115, 121, 125, 132, 138>>,
      <<100, 106, 112, 116, 122, 127, 135, 141>>,
      <<100, 106, 113, 117, 124, 129, 137, 144>>,
      <<100, 107, 113, 118, 125, 131, 139, 146>>,
      <<100, 107, 114, 119, 127, 132, 141, 149>>,
      <<100, 107, 115, 120, 128, 134, 144, 152>>,
      <<100, 108, 116, 121, 129, 136, 146, 155>>,
      <<100, 108, 116, 122, 131, 138, 149, 158>>,
      <<100, 108, 117, 123, 132, 140, 151, 161>>>>

Z_SSF_DMIN ==
    <<<<100, 102, 104, 106, 108, 109, 112, 114>>,
      <<100, 102, 105, 107, 109, 111, 113, 116>>,
      <<100, 103, 106, 108, 110, 112, 115, 118>>,
      <<100, 103, 106, 108, 111, 114, 117, 120>>,
      <<100, 103, 107, 109, 113, 115, 119, 122>>,
      <<100, 104, 108, 110, 114, 117, 121, 125>>,
      <<100, 104, 108, 111, 115, 118, 123, 127>>,
      <<100, 104, 109, 112, 117, 120, 125, 130>>,
      <<100, 105, 110, 113, 118, 122, 127, 132>>,
      <<100, 105, 110, 114, 119, 123, 130, 135>>,
      <<100, 105, 111, 115, 121, 125, 132, 137>>>>

\* a grid of hundredths as rationals
Grid(z) == [i \in DOMAIN z |-> [j \in DOMAIN z[i] |-> Rat(z[i][j], 100)]]

\* _Z_SSF_DICT: two grids, and four more keys bound to the "Dmin" object
ZHeap == <<Grid(Z_SSF_DMAX), Grid(Z_SSF_DMIN)>>

ZRef == [Dmax |-> 1, Dmin |-> 2, Cmax |-> 2, Cmin |-> 2, Bmax |-> 2, Bmin |-> 2]

\* _X_MU_T, in tenths
X_MU_T == <<10, 11, 15, 20, 30, 40, 60, 80>>

\* _Y_T, in hundredths of a second
Y_T == <<50, 60, 70, 80, 90, 100, 110, 120, 130, 140, 150>>

\* the module's globals as they are once the module is loaded
LoadedTables ==
    [mapped_ref  |-> MappedRef,
     mapped_heap |-> MappedHeap,
     t_interp    |-> T_INTERP,
     snrt_interp |-> SNRT_INTERP,
     z_ref       |-> ZRef,
     z_heap      |-> ZHeap,
     x_mu_t      |-> X_MU_T,
     y_t         |-> Y_T]

(***************************************************************************)
(* ssf.  T is in hundredths of a second, mu_t in tenths.                   *)
(***************************************************************************)
\* Z_SSF[i, :] of an np.matrix: a matrix of one row
MatrixRow(Z, i) == <<Z[i]>>

\* Z_SSF[:, j] of an np.matrix: a matrix of one column
MatrixColumn(Z, j) == [i \in DOMAIN Z |-> <<Z[i][j]>>]

\* interp1d(x, y)(x_new)[0] for a two-dimensional y: y is interpolated along
\* its last axis, whose length must be that of x, and [0] takes the result
\* for the first row of y
Interp1dFirst(xs, ys2d, x) ==
    IF Len(xs) # Len(ys2d[1]) THEN Raise("ValueError")
    ELSE Interp1d(xs, ys2d[1], x)

\* the row of the axis xs that opens the interval x is in
CellOf(xs, x) == Clip(SearchSorted(xs, x), 1, Len(xs) - 1)

\* the value at x on the line through (x0, y0) and (x1, y1)
OnLine(x0, y0, x1, y1, x) ==
    RDiv(RAdd(RMul(y0, Rat(x1 - x, 1)), RMul(y1, Rat(x - x0, 1))),
         Rat(x1 - x0, 1))

\* interp2d that interpolates along x in the lower row of the cell only
Interp2dLowerRow(xs, ys, Z, x, y) ==
    LET xc == Clip(x, xs[1], xs[Len(xs)])
        yc == Clip(y, ys[1], ys[Len(ys)])
        i  == CellOf(xs, xc)
        j  == CellOf(ys, yc)
    IN  Num(OnLine(xs[i], Z[j][i], xs[i + 1], Z[j][i + 1], xc))

\* interp2d(x, y, z)(x_new, y_new)[0], linear: z[j][i] is the value at
\* (x[i], y[j]); inside a cell of the grid the value is interpolated along x
\* in the cell's two rows and then along y between them; a point outside
\* the grid takes the value of the nearest point of its edge
Interp2d(xs, ys, Z, x, y) ==
    LET xc == Clip(x, xs[1], xs[Len(xs)])
        yc == Clip(y, ys[1], ys[Len(ys)])
        i  == CellOf(xs, xc)
        j  == CellOf(ys, yc)
        lo == OnLine(xs[i], Z[j][i], xs[i + 1], Z[j][i + 1], xc)
        hi == OnLine(xs[i], Z[j + 1][i], xs[i + 1], Z[j + 1][i + 1], xc)
    IN  Num(OnLine(ys[j], lo, ys[j + 1], hi, yc))

\* the edge-row branch that always interpolates, with no corner shortcut
SsfEdgeRowNoCorner(Z, r, mu_t) ==
    Interp1dFirst(tables.x_mu_t, MatrixRow(Z, r), mu_t)

\* ssf at or beyond an end of the period axis: row r of the grid, its last
\* entry when mu_t >= 8, else interpolated along the ductility axis
SsfEdgeRow(Z, r, mu_t) ==
    IF mu_t >= 80 THEN Num(Z[r][Len(Z[r])])
    ELSE Interp1dFirst(tables.x_mu_t, MatrixRow(Z, r), mu_t)

\* ssf strictly inside the period axis
SsfInside(Z, T, mu_t) ==
    IF mu_t >= 80
    THEN Interp1dFirst(tables.y_t, MatrixColumn(Z, Len(Z[1])), mu_t)
    ELSE Interp2d(tables.x_mu_t, tables.y_t, Z, mu_t, T)

\* the messages of the two ValueErrors ssf raises itself
UnknownCategoryMsg == "Unknown seismic design category"
DuctilityMsg == "mu_t must be greater than or equal to 1"

\* ssf that checks mu_t before it looks the category up
SsfDuctilityFirst(T, mu_t, sdc) ==
    IF mu_t < 10 THEN RaiseMsg("ValueError", DuctilityMsg)
    ELSE IF sdc \notin DOMAIN tables.z_ref
    THEN RaiseMsg("ValueError", UnknownCategoryMsg)
    ELSE LET Z_SSF == tables.z_heap[tables.z_ref[sdc]]
         IN  IF T <= 50 THEN SsfEdgeRow(Z_SSF, 1, mu_t)
             ELSE IF T >= 150 THEN SsfEdgeRow(Z_SSF, Len(Z_SSF), mu_t)
             ELSE SsfInside(Z_SSF, T, mu_t)

\* ssf(T, mu_t, sdc)
Ssf(T, mu_t, sdc) ==
    IF sdc \notin DOMAIN tables.z_ref
    THEN RaiseMsg("ValueError", UnknownCategoryMsg)
    ELSE IF mu_t < 10 THEN RaiseMsg("ValueError", DuctilityMsg)
    ELSE LET Z_SSF == tables.z_heap[tables.z_ref[sdc]]
         IN  IF T <= 50 THEN SsfEdgeRow(Z_SSF, 1, mu_t)
             ELSE IF T >= 150 THEN SsfEdgeRow(Z_SSF, Len(Z_SSF), mu_t)
             ELSE SsfInside(Z_SSF, T, mu_t)

(***************************************************************************)
(* seismic_response_coeff.  R is an integer, T is in thousandths.          *)
(***************************************************************************)
\* max(a, b) of Python: b when it is greater, else a
RMax(a, b) == IF RLt(a, b) THEN b ELSE a

\* the period above which the call warns on stderr (4.0 s)
PeriodOutOfBounds(T) == T > 4000

\* seismic_response_coeff with no 0.01 floor
SeismicResponseCoeffNoFloor(R, T, sdc) ==
    LET Ts  == MappedValue("Ts", sdc)
        SD1 == MappedValue("SD1", sdc)
        SDS == MappedValue("SDS", sdc)
    IN  IF Ts.tag = "raise" THEN Ts
        ELSE IF SD1.tag = "raise" THEN SD1
        ELSE IF SDS.tag = "raise" THEN SDS
        ELSE IF R = 0 THEN Raise("ZeroDivisionError")
        ELSE IF RLe(Rat(T, 1000), Rat(Ts.mv.milli, 1000))
        THEN Num(RDiv(Rat(SDS.mv.milli, 1000), Rat(R, 1)))
        ELSE Num(RMax(RDiv(Rat(SD1.mv.milli, 1000),
                           RMul(Rat(T, 1000), Rat(R, 1))),
                      RMul(Rat(44, 1000), Rat(SDS.mv.milli, 1000))))

\* seismic_response_coeff with no 0.044*SDS lower limit above Ts
SeismicResponseCoeffNoLowerLimit(R, T, sdc) ==
    LET Ts  == MappedValue("Ts", sdc)
        SD1 == MappedValue("SD1", sdc)
        SDS == MappedValue("SDS", sdc)
    IN  IF Ts.tag = "raise" THEN Ts
        ELSE IF SD1.tag = "raise" THEN SD1
        ELSE IF SDS.tag = "raise" THEN SDS
        ELSE IF R = 0 THEN Raise("ZeroDivisionError")
        ELSE LET Cs == IF RLe(Rat(T, 1000), Rat(Ts.mv.milli, 1000))
                       THEN RDiv(Rat(SDS.mv.milli, 1000), Rat(R, 1))
                       ELSE RDiv(Rat(SD1.mv.milli, 1000),
                                 RMul(Rat(T, 1000), Rat(R, 1)))
             IN  Num(RMax(Cs, Rat(1, 100)))

\* seismic_response_coeff(R, T, sdc): the value it returns or raises
SeismicResponseCoeff(R, T, sdc) ==
    LET Ts  == MappedValue("Ts", sdc)
        SD1 == MappedValue("SD1", sdc)
        SDS == MappedValue("SDS", sdc)
    IN  IF Ts.tag = "raise" THEN Ts
        ELSE IF SD1.tag = "raise" THEN SD1
        ELSE IF SDS.tag = "raise" THEN SDS
        ELSE IF R = 0 THEN Raise("ZeroDivisionError")
        ELSE LET Cs == IF RLe(Rat(T, 1000), Rat(Ts.mv.milli, 1000))
                       THEN RDiv(Rat(SDS.mv.milli, 1000), Rat(R, 1))
                       ELSE RMax(RDiv(Rat(SD1.mv.milli, 1000),
                                      RMul(Rat(T, 1000), Rat(R, 1))),
                                 RMul(Rat(44, 1000),
                                      Rat(SDS.mv.milli, 1000)))
             IN  Num(RMax(Cs, Rat(1, 100)))

(***************************************************************************)
(* steeldesign: SteelMaterial.from_name.  The materials file               *)
(* (steel-materials.csv) is read into MATERIALS when the module loads; its *)
(* rows here are the ones the tests name, and the other grade of A500.     *)
(* Strengths are in ksi, Ry and Rt in tenths.                              *)
(***************************************************************************)
MaterialRow(name, grade, application, E, Fy, Fu, Ry, Rt) ==
    [name |-> name, grade |-> grade, application |-> application,
     E |-> E, Fy |-> Fy, Fu |-> Fu, Ry |-> Ry, Rt |-> Rt]

MATERIALS ==
    {MaterialRow("A500", "B", "HSS", 29000, 46, 58, 14, 13),
     MaterialRow("A500", "C", "HSS", 29000, 50, 62, 13, 12),
     MaterialRow("A992", None, "Hot-rolled", 29000, 50, 65, 11, 11)}

\* SteelMaterial(name, E, Fy, Fu, Ry, Rt): __post_init__ refuses Fy > Fu
SteelMaterial(name, E, Fy, Fu, Ry, Rt) ==
    IF Fy > Fu THEN Raise("SteelError")
    ELSE [tag |-> "SteelMaterial", m |-> NoMag, u |-> None, err |-> None,
          name |-> name, E |-> E, Fy |-> Fy, Fu |-> Fu, Ry |-> Ry, Rt |-> Rt]

\* SteelMaterial.from_name(name, application=None) called with one or two
\* positional arguments and the keywords grade and application (None: not
\* passed).  Python binds the second positional argument to application.
FromName(name, second, grade, application) ==
    IF grade # None THEN Raise("TypeError")
    ELSE IF second # None /\ application # None THEN Raise("TypeError")
    ELSE LET app  == IF second # None THEN second ELSE application
             rows == {r \in MATERIALS :
                        /\ r.name = name
                        /\ app # None => r.application = app}
         IN  IF rows = {} THEN Raise("KeyError")
             ELSE IF Cardinality(rows) > 1 THEN Raise("SteelError")
             ELSE LET material == CHOOSE r \in rows : TRUE
                  IN  SteelMaterial(name, material.E, material.Fy,
                                    material.Fu, material.Ry, material.Rt)

\* the arguments callers hand to from_name
MaterialNames == {"A500", "A992", "A36"}
GradeNames == {"B", "C"}
ApplicationNames == {"HSS", "Hot-rolled"}

(***************************************************************************)
(* text: Boxer.  A string is the sequence of its characters.               *)
(***************************************************************************)
\* s*n of Python: the empty string when n <= 0
RECURSIVE Repeat(_, _)
Repeat(str, n) == IF n <= 0 THEN <<>> ELSE str \o Repeat(str, n - 1)

\* s[:n] and s[n:] of Python, 0 <= n
Take(str, n) == SubSeq(str, 1, IF n < Len(str) THEN n ELSE Len(str))
Drop(str, n) == SubSeq(str, n + 1, Len(str))

\* s.ljust(n)
Ljust(str, n) == str \o Repeat(<<" ">>, n - Len(str))

\* s.strip() == ''
IsBlank(str) == \A i \in DOMAIN str : str[i] = " "

\* the concatenation of a list of strings
RECURSIVE Join(_)
Join(strs) == IF strs = <<>> THEN <<>> ELSE Head(strs) \o Join(Tail(strs))

\* text.splitlines()
RECURSIVE SplitLines(_)
SplitLines(text) ==
    IF text = <<>> THEN <<>>
    ELSE IF \E i \in DOMAIN text : text[i] = "\n"
    THEN LET k == CHOOSE i \in DOMAIN text :
                     /\ text[i] = "\n"
                     /\ \A j \in 1 .. i - 1 : text[j] # "\n"
         IN  <<SubSeq(text, 1, k - 1)>> \o SplitLines(Drop(text, k))
    ELSE <<text>>

\* TextWrapper._split: the runs of blanks and of other characters
RECURSIVE SplitChunks(_)
SplitChunks(line) ==
    IF line = <<>> THEN <<>>
    ELSE LET blank == line[1] = " "
             run   == {i \in DOMAIN line :
                         \A j \in 1 .. i : (line[j] = " ") = blank}
             k     == Cardinality(run)
         IN  <<Take(line, k)>> \o SplitChunks(Drop(line, k))

\* how many of the leading chunks fit in a line that has room left
RECURSIVE Fit(_, _)
Fit(chunks, room) ==
    IF chunks = <<>> \/ Len(chunks[1]) > room THEN 0
    ELSE 1 + Fit(Tail(chunks), room - Len(chunks[1]))

\* TextWrapper._wrap_chunks (break_long_words, drop_whitespace): first is
\* TRUE until a line has been produced
RECURSIVE WrapChunks(_, _, _)
WrapChunks(chunks, width, first) ==
    IF chunks = <<>> THEN <<>>
    ELSE LET c0   == IF ~first /\ IsBlank(chunks[1]) THEN Tail(chunks)
                     ELSE chunks
             k    == Fit(c0, width)
             cur0 == SubSeq(c0, 1, k)
             rest == SubSeq(c0, k + 1, Len(c0))
             long == rest # <<>> /\ Len(rest[1]) > width
             room == width - Len(Join(cur0))
             cur1 == IF long THEN Append(cur0, Take(rest[1], room))
                     ELSE cur0
             left == IF long THEN <<Drop(rest[1], room)>> \o Tail(rest)
                     ELSE rest
             cur  == IF cur1 # <<>> /\ IsBlank(cur1[Len(cur1)])
                     THEN SubSeq(cur1, 1, Len(cur1) - 1) ELSE cur1
         IN  IF cur # <<>>
             THEN <<Join(cur)>> \o WrapChunks(left, width, FALSE)
             ELSE WrapChunks(left, width, first)

\* textwrap.wrap(line, width=width), for width >= 1
Wrap(line, width) == WrapChunks(SplitChunks(line), width, TRUE)

\* an optional argument: the empty set when it is None, else {value}
NoArg == {}
Arg(x) == {x}
OrElse(arg, default) == IF arg = NoArg THEN default ELSE CHOOSE x \in arg : TRUE

\* Boxer(left, right, rule, pad, first, final, rpad, width)
Boxer(left, right, rule, pad, first, final, rpad, width) ==
    [left |-> left, right |-> right, rule |-> rule,
     first |-> OrElse(first, left), final |-> OrElse(final, right),
     lpad |-> pad, rpad |-> OrElse(rpad, pad), width |-> width]

\* Boxer.textwidth(width)
TextWidth(self, width) ==
    LET w == OrElse(width, self.width)
    IN  w - Len(self.left) - Len(self.right) - Len(self.lpad)
          - Len(self.rpad)

\* the rule repeated and cut to fill n characters
FitRule(rule, n) ==
    IF Len(rule) = 1 THEN Repeat(rule, n)
    ELSE Repeat(rule, n \div Len(rule)) \o Take(rule, n % Len(rule))

\* the lines of a box, as a result
Lines(ls) ==
    [tag |-> "lines", m |-> NoMag, u |-> None, err |-> None, lines |-> ls]

\* the text lines of the box: each line of the text wrapped, or left as it
\* is, then padded and framed
RECURSIVE BoxLines(_, _, _, _)
BoxLines(self, text, textwidth, wrap) ==
    IF text = <<>> THEN <<>>
    ELSE LET line    == Head(text)
             wrapped == IF wrap /\ Len(line) > textwidth
                        THEN Wrap(line, textwidth) ELSE <<line>>
         IN  [i \in DOMAIN wrapped |->
                 self.left \o self.lpad \o Ljust(wrapped[i], textwidth)
                   \o self.rpad \o self.right]
             \o BoxLines(self, Tail(text), textwidth, wrap)

\* Boxer.boxsplit(text, width, wrap): textwrap.wrap refuses a width below 1
Boxsplit(self, text, width, wrap) ==
    LET w               == OrElse(width, self.width)
        textwidth       == TextWidth(self, Arg(w))
        toprulewidth    == w - Len(self.first) - Len(self.right)
        bottomrulewidth == w - Len(self.left) - Len(self.final)
        toprule    == IF Len(self.rule) = 0 THEN self.first
                      ELSE self.first \o FitRule(self.rule, toprulewidth)
                             \o self.right
        bottomrule == IF Len(self.rule) = 0 THEN self.final
                      ELSE self.left \o FitRule(self.rule, bottomrulewidth)
                             \o self.final
        lines      == SplitLines(text)
    IN  IF wrap /\ textwidth <= 0
             /\ \E i \in DOMAIN lines : Len(lines[i]) > textwidth
        THEN Raise("ValueError")
        ELSE Lines(<<toprule>> \o BoxLines(self, lines, textwidth, wrap)
                     \o <<bottomrule>>)

\* the lines of a text that get a warning when they are not wrapped
LongLines(self, text, width, wrap) ==
    LET lines == SplitLines(text)
    IN  {i \in DOMAIN lines :
           ~wrap /\ Len(lines[i]) > TextWidth(self, width)}

(***************************************************************************)
(* The state machine.  A caller makes one call at a time: at "idle" it     *)
(* picks a function and its arguments, the call runs to its return or its  *)
(* exception ("returned"), and the caller goes on to its next call.        *)
(***************************************************************************)
NoCall == [op |-> "none"]

\* nothing written to stderr
NoOutput == <<>>

\* the concurrent callers
Threads == {1, 2}

\* a caller between calls
IdleThread ==
    [pc |-> "idle", call |-> NoCall, q |-> Raise(None), units |-> None,
     Z_SSF |-> <<>>, result |-> Raise(None), overlapped |-> FALSE]

\* a UnitInputParser object: its default_units, convert and check_dims
ParserObject(default_units, convert, check_dims) ==
    [default_units |-> default_units, convert |-> convert,
     check_dims |-> check_dims]

\* no parser constructed yet
NoParser == ParserObject(None, FALSE, FALSE)

Init ==
    /\ pc = "idle"
    /\ call = NoCall
    /\ result = Raise(None)
    /\ tables = LoadedTables
    /\ stderr = NoOutput
    /\ given = None
    /\ same = FALSE
    /\ threads = [t \in Threads |-> IdleThread]
    /\ parsers = [t \in Threads |-> NoParser]

\* parser.parse(in_, units), parser = UnitInputParser(default_units, ...)
ParseCall ==
    /\ pc = "idle"
    /\ \E in \in Inputs, d \in Units \cup {None}, o \in Units \cup {None},
          c \in BOOLEAN, k \in BOOLEAN :
        /\ call' = [op |-> "parse", in |-> in, default_units |-> d,
                    units |-> o, convert |-> c, check_dims |-> k]
        /\ result' = Parse(in, d, o, c, k)
        /\ given' = GivenAfterParse(in, d, o, c, k)
        /\ same' = ParseReturnsGiven(in, d, o, c, k)
    /\ pc' = "returned"
    /\ stderr' = NoOutput
    /\ UNCHANGED <<tables, threads, parsers>>

\* convert(value, units)
ConvertCall ==
    /\ pc = "idle"
    /\ \E in \in Inputs, u \in Units \cup {None} :
        /\ call' = [op |-> "convert", in |-> in, units |-> u]
        /\ result' = Convert(in, u)
        /\ given' = GivenAfterConvert(in, u)
    /\ same' = FALSE
    /\ pc' = "returned"
    /\ stderr' = NoOutput
    /\ UNCHANGED <<tables, threads, parsers>>

\* the older process_unit_input(in_, default_units, convert)
LegacyCall ==
    /\ pc = "idle"
    /\ \E in \in LegacyInputs, d \in Units \cup {None}, c \in BOOLEAN :
        /\ call' = [op |-> "legacy", in |-> in, default_units |-> d,
                    convert |-> c]
        /\ result' = LegacyProcessUnitInput(in, d, c)
        /\ given' = IF in.kind = "Quantity" THEN Quantity(in.m, in.u)
                    ELSE None
        /\ same' = (in.kind = "Quantity" /\ ~c)
    /\ pc' = "returned"
    /\ stderr' = NoOutput
    /\ UNCHANGED <<tables, threads, parsers>>

\* the three input shapes of one value: parse(v, default_units=u), then
\* parse((v, u)) and parse('v u') by a parser whose default is d
ThreeShapesCall ==
    /\ pc = "idle"
    /\ \E m \in ScalarMags, u \in Units, c \in BOOLEAN, k \in BOOLEAN :
       \E d \in {None, u} :
        /\ call' = [op |-> "three_shapes", m |-> m, u |-> u,
                    default_units |-> d, convert |-> c, check_dims |-> k]
        /\ result' = <<ProcessUnitInput(NumIn(m), u, c, k),
                       ProcessUnitInput(TupleIn(2, m, u), d, c, k),
                       ProcessUnitInput(StrIn(m, u), d, c, k)>>
    /\ pc' = "returned"
    /\ stderr' = NoOutput
    /\ given' = None
    /\ same' = FALSE
    /\ UNCHANGED <<tables, threads, parsers>>

\* convert(convert(x, 'mm'), 'inch'): the inner call's exception propagates
RoundTrip(x) ==
    LET inner == Convert(x, "mm")
    IN  IF inner.tag = "raise" THEN inner
        ELSE Convert(NumIn(inner.m), "inch")

RoundTripCall ==
    /\ pc = "idle"
    /\ \E x \in Inputs :
        /\ call' = [op |-> "round_trip", in |-> x]
        /\ result' = RoundTrip(x)
        /\ given' = GivenAfterConvert(x, "mm")
    /\ same' = FALSE
    /\ pc' = "returned"
    /\ stderr' = NoOutput
    /\ UNCHANGED <<tables, threads, parsers>>

\* sf1(T, sdc)
Sf1Call ==
    /\ pc = "idle"
    /\ \E T \in 0 .. MaxT, sdc \in SdcNames :
        /\ call' = [op |-> "sf1", T |-> T, sdc |-> sdc]
        /\ result' = Sf1(T, sdc)
    /\ pc' = "returned"
    /\ stderr' = NoOutput
    /\ given' = None
    /\ same' = FALSE
    /\ UNCHANGED <<tables, threads, parsers>>

\* ssf(T, mu_t, sdc)
SsfCall ==
    /\ pc = "idle"
    /\ \E T \in (Y_T[1] - SsfTMargin) .. (Y_T[Len(Y_T)] + SsfTMargin),
          mu_t \in (X_MU_T[1] - MuMargin) .. (X_MU_T[Len(X_MU_T)] + MuMargin),
          sdc \in SdcNames :
        /\ call' = [op |-> "ssf", T |-> T, mu_t |-> mu_t, sdc |-> sdc]
        /\ result' = Ssf(T, mu_t, sdc)
    /\ pc' = "returned"
    /\ stderr' = NoOutput
    /\ given' = None
    /\ same' = FALSE
    /\ UNCHANGED <<tables, threads, parsers>>

\* smt(T, sdc)
SmtCall ==
    /\ pc = "idle"
    /\ \E T \in 0 .. MaxT, sdc \in SdcNames :
        /\ call' = [op |-> "smt", T |-> T, sdc |-> sdc]
        /\ result' = Smt(T, sdc)
    /\ pc' = "returned"
    /\ stderr' = NoOutput
    /\ given' = None
    /\ same' = FALSE
    /\ UNCHANGED <<tables, threads, parsers>>

\* the periods handed to seismic_response_coeff
CsPeriods ==
    {50 * k : k \in 0 .. MaxCsStep}
    \cup {MappedHeap[i].ts.milli + 1 : i \in DOMAIN MappedHeap}

\* seismic_response_coeff(R, T, sdc): the warning is printed before the
\* lookups, so it is on stderr also when the call raises
SeismicResponseCoeffCall ==
    /\ pc = "idle"
    /\ \E R \in 0 .. MaxR, T \in CsPeriods, sdc \in SdcNames :
        /\ call' = [op |-> "seismic_response_coeff", R |-> R, T |-> T,
                    sdc |-> sdc]
        /\ stderr' = IF PeriodOutOfBounds(T) THEN <<"WARNING">>
                     ELSE NoOutput
        /\ result' = SeismicResponseCoeff(R, T, sdc)
    /\ pc' = "returned"
    /\ given' = None
    /\ same' = FALSE
    /\ UNCHANGED <<tables, threads, parsers>>

\* the strings over the characters of a text, up to n characters long
RECURSIVE Strings(_)
Strings(n) ==
    IF n = 0 THEN {<<>>}
    ELSE Strings(n - 1)
         \cup {Append(str, c) : str \in Strings(n - 1), c \in {"a", " ", "\n"}}

\* the module's two Boxers, and Boxers with a rule of two characters, with
\* no rule, with first and final longer than left and right, with no right
\* padding
PyBoxer ==
    Boxer(<<"#">>, <<"#">>, <<"=">>, <<" ">>, NoArg, NoArg, NoArg, 80)
CBoxer ==
    Boxer(<<" ", "*">>, <<"*", " ">>, <<"*">>, <<" ">>,
          Arg(<<"/", "*">>), Arg(<<"*", "/">>), NoArg, 80)
Boxers ==
    {PyBoxer, CBoxer,
     Boxer(<<"#">>, <<"#">>, <<"=", "-">>, <<" ">>, NoArg, NoArg, NoArg, 80),
     Boxer(<<"#">>, <<"#">>, <<>>, <<" ">>, NoArg, NoArg, NoArg, 80),
     Boxer(<<"#">>, <<"#">>, <<"=">>, <<" ">>,
           Arg(<<"/", "*", "*", "*", "*", "*", "*", "*">>),
           Arg(<<"*", "*", "*", "*", "*", "*", "/">>), NoArg, 80),
     Boxer(<<"|">>, <<"|">>, <<"-", "=">>, <<" ">>,
           Arg(<<"+", "-", "-", "-", "-", "-", "-">>), NoArg, Arg(<<>>), 80)}

\* boxer.boxsplit(text, width, wrap): a line too long for an unwrapped box
\* is warned about and left as it is
BoxsplitCall ==
    /\ pc = "idle"
    /\ \E self \in Boxers, text \in Strings(MaxTextLen),
          width \in {Arg(w) : w \in 3 .. MaxWidth} \cup {NoArg},
          wrap \in BOOLEAN :
        /\ call' = [op |-> "boxsplit", self |-> self, text |-> text,
                    width |-> width, wrap |-> wrap]
        /\ result' = Boxsplit(self, text, width, wrap)
        /\ stderr' = IF Boxsplit(self, text, width, wrap).tag = "raise"
                     THEN NoOutput
                     ELSE [i \in 1 .. Cardinality(LongLines(self, text, width,
                                                            wrap)) |->
                             "WARNING"]
    /\ pc' = "returned"
    /\ given' = None
    /\ same' = FALSE
    /\ UNCHANGED <<tables, threads, parsers>>

\* SteelMaterial.from_name(name[, second], grade=..., application=...)
FromNameCall ==
    /\ pc = "idle"
    /\ \E name \in MaterialNames,
          second \in GradeNames \cup ApplicationNames \cup {None},
          grade \in GradeNames \cup {None},
          application \in ApplicationNames \cup {None} :
        /\ call' = [op |-> "from_name", name |-> name, second |-> second,
                    grade |-> grade, application |-> application]
        /\ result' = FromName(name, second, grade, application)
    /\ pc' = "returned"
    /\ stderr' = NoOutput
    /\ given' = None
    /\ same' = FALSE
    /\ UNCHANGED <<tables, threads, parsers>>

\* mapped_value with the lookup done by dict.pop
MappedValueCallPops ==
    /\ pc = "idle"
    /\ \E v \in ValueNames, sdc \in SdcNames :
        /\ call' = [op |-> "mapped_value", value |-> v, sdc |-> sdc]
        /\ result' = MappedValue(v, sdc)
        /\ tables' =
              IF Lower(sdc) \in DOMAIN tables.mapped_ref
              THEN [tables EXCEPT !.mapped_ref =
                      [k \in DOMAIN tables.mapped_ref \ {Lower(sdc)} |->
                          tables.mapped_ref[k]]]
              ELSE tables
    /\ pc' = "returned"
    /\ stderr' = NoOutput
    /\ given' = None
    /\ same' = FALSE
    /\ UNCHANGED <<threads, parsers>>

\* mapped_value(value, sdc)
MappedValueCall ==
    /\ pc = "idle"
    /\ \E v \in ValueNames, sdc \in SdcNames :
        /\ call' = [op |-> "mapped_value", value |-> v, sdc |-> sdc]
        /\ result' = MappedValue(v, sdc)
    /\ pc' = "returned"
    /\ stderr' = NoOutput
    /\ given' = None
    /\ same' = FALSE
    /\ UNCHANGED <<tables, threads, parsers>>

\* the caller takes the result and is ready for its next call
Return ==
    /\ pc = "returned"
    /\ pc' = "idle"
    /\ call' = NoCall
    /\ result' = Raise(None)
    /\ stderr' = NoOutput
    /\ given' = None
    /\ same' = FALSE
    /\ UNCHANGED <<tables, threads, parsers>>

Next ==
    \/ ParseCall
    \/ ConvertCall
    \/ LegacyCall
    \/ ThreeShapesCall
    \/ RoundTripCall
    \/ Sf1Call
    \/ SsfCall
    \/ SmtCall
    \/ SeismicResponseCoeffCall
    \/ FromNameCall
    \/ BoxsplitCall
    \/ MappedValueCall
    \/ Return

Spec == Init /\ [][Next]_vars

(***************************************************************************)
(* Concurrent callers.  Each caller runs one call at a time, a statement   *)
(* or two per step; the steps of different callers interleave freely.      *)
(* Every process_unit_input call constructs its own UnitInputParser; the   *)
(* fema_p695 calls read the module's tables.                               *)
(***************************************************************************)
\* one parser object, shared by every call
ParserShared(t) == 1

\* the parser object a call of caller t constructs: a new one, its own
ParserOf(t) == t

\* the arguments the concurrent callers pass
ConcInputs == {NumIn(Scalar(1)), QtyIn(Scalar(1), "inch")}
ConcUnits == {"mm", "psi"}
ConcPeriods == {25, 100}
ConcDuctilities == {8, 20}
ConcSdc == {"Dmax", "Emax"}

\* TRUE while caller t is inside a call
InCall(t) == threads[t].pc \notin {"idle", "done"}

\* caller t moves to th; callers inside a call at that moment, and t when
\* there is one, have had their call overlapped by another's
Step(t, th) ==
    threads' =
      [o \in Threads |->
         IF o = t
         THEN [th EXCEPT !.overlapped =
                 threads[t].overlapped \/ \E x \in Threads \ {t} : InCall(x)]
         ELSE IF InCall(o) THEN [threads[o] EXCEPT !.overlapped = TRUE]
         ELSE threads[o]]

\* the variables of the one-caller specification
seq_vars == <<pc, call, result, tables, stderr, given, same>>

\* process_unit_input(in_, default_units, convert, check_dims):
\* parser = UnitInputParser(...)
PuiConstruct(t) ==
    /\ threads[t].pc = "idle"
    /\ \E in \in ConcInputs, d \in ConcUnits \cup {None},
          c \in BOOLEAN, k \in BOOLEAN :
        /\ parsers' = [parsers EXCEPT ![ParserOf(t)] = ParserObject(d, c, k)]
        /\ Step(t, [threads[t] EXCEPT
                      !.pc = "constructed",
                      !.call = [op |-> "process_unit_input", in |-> in,
                                default_units |-> d, convert |-> c,
                                check_dims |-> k]])
    /\ UNCHANGED seq_vars

\* convert(value, units): process_unit_input(value, units, convert=True)
ConvertConstruct(t) ==
    /\ threads[t].pc = "idle"
    /\ \E in \in ConcInputs, u \in ConcUnits :
        /\ parsers' = [parsers EXCEPT
                         ![ParserOf(t)] = ParserObject(u, TRUE, FALSE)]
        /\ Step(t, [threads[t] EXCEPT
                      !.pc = "constructed",
                      !.call = [op |-> "convert", in |-> in, units |-> u]])
    /\ UNCHANGED seq_vars

\* parse: units = self.default_units; q = self._parse_internal(in_, units).
\* When the call ends, here by an exception, its parser is garbage.
ParseInternalStep(t) ==
    /\ threads[t].pc = "constructed"
    /\ LET self  == parsers[ParserOf(t)]
           units == self.default_units
           q     == ParseInternal(threads[t].call.in, units)
       IN  IF q.tag = "raise"
           THEN /\ Step(t, [threads[t] EXCEPT !.pc = "done", !.result = q])
                /\ parsers' = [parsers EXCEPT ![ParserOf(t)] = NoParser]
           ELSE /\ Step(t, [threads[t] EXCEPT !.pc = "parsed",
                                              !.units = units, !.q = q])
                /\ UNCHANGED parsers
    /\ UNCHANGED seq_vars

\* parse: the dimension check and the conversion, then the return; convert
\* returns the magnitude of what parse returned
ParseFinish(t) ==
    /\ threads[t].pc = "parsed"
    /\ LET self  == parsers[ParserOf(t)]
           units == threads[t].units
           q     == threads[t].q
           r     == IF units = None THEN q
                    ELSE IF /\ self.check_dims /\ ~self.convert
                            /\ CheckDimensionsRaises(q, units)
                    THEN Raise("DimensionalityError")
                    ELSE IF self.convert THEN To(q, units)
                    ELSE q
           out   == IF threads[t].call.op # "convert" \/ r.tag = "raise"
                    THEN r
                    ELSE IF ~IsQuantity(r) THEN Raise("AttributeError")
                    ELSE Bare(r.m)
       IN  Step(t, [threads[t] EXCEPT !.pc = "done", !.units = None,
                                      !.q = Raise(None), !.result = out])
    /\ parsers' = [parsers EXCEPT ![ParserOf(t)] = NoParser]
    /\ UNCHANGED seq_vars

\* ssf(T, mu_t, sdc): Z_SSF = _Z_SSF_DICT[sdc]
SsfLookup(t) ==
    /\ threads[t].pc = "idle"
    /\ \E T \in ConcPeriods, mu_t \in ConcDuctilities, sdc \in ConcSdc :
        LET c == [op |-> "ssf", T |-> T, mu_t |-> mu_t, sdc |-> sdc]
        IN  IF sdc \notin DOMAIN tables.z_ref
            THEN Step(t, [threads[t] EXCEPT
                            !.pc = "done", !.call = c,
                            !.result = RaiseMsg("ValueError",
                                                UnknownCategoryMsg)])
            ELSE Step(t, [threads[t] EXCEPT
                            !.pc = "looked_up", !.call = c,
                            !.Z_SSF = tables.z_heap[tables.z_ref[sdc]]])
    /\ UNCHANGED <<seq_vars, parsers>>

\* ssf: the mu_t check and the boundary ladder
SsfFinish(t) ==
    /\ threads[t].pc = "looked_up"
    /\ LET T     == threads[t].call.T
           mu_t  == threads[t].call.mu_t
           Z_SSF == threads[t].Z_SSF
           out   == IF mu_t < 10 THEN RaiseMsg("ValueError", DuctilityMsg)
                    ELSE IF T <= 50 THEN SsfEdgeRow(Z_SSF, 1, mu_t)
                    ELSE IF T >= 150
                    THEN SsfEdgeRow(Z_SSF, Len(Z_SSF), mu_t)
                    ELSE SsfInside(Z_SSF, T, mu_t)
       IN  Step(t, [threads[t] EXCEPT !.pc = "done", !.Z_SSF = <<>>,
                                      !.result = out])
    /\ UNCHANGED <<seq_vars, parsers>>

\* sf1(T, sdc): the period check
Sf1Check(t) ==
    /\ threads[t].pc = "idle"
    /\ \E T \in ConcPeriods, sdc \in ConcSdc :
        LET c == [op |-> "sf1", T |-> T, sdc |-> sdc]
        IN  IF Sf1OutOfRange(T)
            THEN Step(t, [threads[t] EXCEPT !.pc = "done", !.call = c,
                                            !.result = Raise("ValueError")])
            ELSE Step(t, [threads[t] EXCEPT !.pc = "in_range", !.call = c])
    /\ UNCHANGED <<seq_vars, parsers>>

\* sf1: SNRT = f(T); SMT = smt(T, sdc); return SMT/SNRT
Sf1Finish(t) ==
    /\ threads[t].pc = "in_range"
    /\ LET T    == threads[t].call.T
           SNRT == Interp1d(tables.t_interp, tables.snrt_interp, T)
           SMT  == Smt(T, threads[t].call.sdc)
           out  == IF SNRT.tag = "raise" THEN SNRT
                   ELSE IF SMT.tag = "raise" THEN SMT
                   ELSE Num(RDiv(SMT.m.v[1], SNRT.m.v[1]))
       IN  Step(t, [threads[t] EXCEPT !.pc = "done", !.result = out])
    /\ UNCHANGED <<seq_vars, parsers>>

\* mapped_value(value, sdc): one dictionary lookup
MappedValueStep(t) ==
    /\ threads[t].pc = "idle"
    /\ \E v \in {"SDS"}, sdc \in ConcSdc :
        Step(t, [threads[t] EXCEPT
                   !.pc = "done",
                   !.call = [op |-> "mapped_value", value |-> v,
                             sdc |-> sdc],
                   !.result = MappedValue(v, sdc)])
    /\ UNCHANGED <<seq_vars, parsers>>

\* caller t takes its result and is ready for its next call
ThreadReturn(t) ==
    /\ threads[t].pc = "done"
    /\ Step(t, IdleThread)
    /\ UNCHANGED <<seq_vars, parsers>>

ConcNext ==
    \E t \in Threads :
        \/ PuiConstruct(t)
        \/ ConvertConstruct(t)
        \/ ParseInternalStep(t)
        \/ ParseFinish(t)
        \/ SsfLookup(t)
        \/ SsfFinish(t)
        \/ Sf1Check(t)
        \/ Sf1Finish(t)
        \/ MappedValueStep(t)
        \/ ThreadReturn(t)

ConcSpec == Init /\ [][ConcNext]_vars

(***************************************************************************)
(* Properties                                                              *)
(***************************************************************************)
Returned(o) == pc = "returned" /\ call.op = o

\* the units a parse call works with: the override when given, else the
\* parser's default_units
EffUnits == IF call.units = None THEN call.default_units ELSE call.units

SameDims(u1, u2) == Dimensionality(u1) = Dimensionality(u2)

\* the magnitude m of unit u, expressed in unit v
InUnits(m, u, v) == Scale(m, RDiv(Factor(u), Factor(v)))

\* C1: parse(v, default_units=u), parse((v, u)) and parse('v u') return
\* Quantities with the same magnitude and the same unit, for every value v
\* and unit u.
C1_ThreeShapesAgree ==
    Returned("three_shapes") =>
        /\ \A i \in 1 .. 3 : IsQuantity(result[i])
        /\ \A i, j \in 1 .. 3 :
              result[i].m = result[j].m /\ result[i].u = result[j].u
        /\ result[1].m = call.m /\ result[1].u = call.u

C1_Witness ==
    /\ Returned("three_shapes")
    /\ call.m = Scalar(3) /\ call.u = "psi" /\ call.default_units = None
    /\ result[3] = Quantity(Scalar(3), "psi")

\* C2: a bare number or array parsed with default units set comes back as
\* the raw value tagged with those units, whatever convert and check_dims
\* are.
C2_BareTaggedWithDefault ==
    /\ (Returned("parse") /\ call.in.kind = "number" /\ EffUnits # None) =>
          result = Quantity(call.in.m, EffUnits)
    /\ (/\ Returned("legacy")
        /\ call.in.kind = "number"
        /\ call.default_units # None) =>
          result = Quantity(call.in.m, call.default_units)

C2_Witness ==
    /\ Returned("parse")
    /\ call.in = NumIn(Array(<<0, 1>>))
    /\ call.default_units = "ksi" /\ call.units = None
    /\ call.convert /\ call.check_dims
    /\ result = Quantity(Array(<<0, 1>>), "ksi")

C4_TupleKeepsOwnUnit ==
    ((Returned("parse") \/ Returned("legacy")) /\ call.in.kind = "tuple") =>
        /\ call.in.len # 2 => Raised(result, "ValueError")
        /\ (call.in.len = 2 /\ IsQuantity(result)) => result.u = call.in.u

\* C4 as amended: a tuple whose length is not 2 raises ValueError for every
\* setting; a (value, unit) tuple gives a result that carries the tuple's
\* own unit and value when convert is off or no default units are set, and
\* that is expressed in the default units when convert is on and they are
\* set.
C4_TupleShape ==
    /\ (Returned("parse") /\ call.in.kind = "tuple") =>
          /\ call.in.len # 2 => Raised(result, "ValueError")
          /\ (call.in.len = 2 /\ IsQuantity(result)) =>
                IF call.convert /\ EffUnits # None
                THEN result.u = EffUnits
                ELSE result = Quantity(call.in.m, call.in.u)
    /\ (Returned("legacy") /\ call.in.kind = "tuple") =>
          /\ call.in.len # 2 => Raised(result, "ValueError")
          /\ (call.in.len = 2 /\ IsQuantity(result)) =>
                IF call.convert
                THEN result.u = call.default_units
                ELSE result = Quantity(call.in.m, call.in.u)

C4_Witness ==
    /\ Returned("parse")
    /\ call.in = TupleIn(2, Scalar(2), "psi")
    /\ call.default_units = "ksi" /\ call.units = None
    /\ ~call.convert
    /\ result = Quantity(Scalar(2), "psi")

\* C5: an input that carries units, parsed with convert on and default
\* units set, comes back expressed in the default units when the
\* dimensions agree and raises DimensionalityError when they differ (so
\* does convert(q, u) for a q of another dimension); no Quantity in any
\* other unit is returned.
C5_ConvertToDefault ==
    /\ (/\ Returned("parse")
        /\ CarriesUnits(call.in)
        /\ EffUnits # None
        /\ call.convert) =>
          /\ SameDims(call.in.u, EffUnits) =>
                result = Quantity(InUnits(call.in.m, call.in.u, EffUnits),
                                  EffUnits)
          /\ ~SameDims(call.in.u, EffUnits) =>
                Raised(result, "DimensionalityError")
          /\ IsQuantity(result) => result.u = EffUnits
    /\ (/\ Returned("convert")
        /\ CarriesUnits(call.in)
        /\ call.units # None
        /\ ~SameDims(call.in.u, call.units)) =>
          Raised(result, "DimensionalityError")

C5_Witness ==
    /\ Returned("parse")
    /\ call.in = QtyIn(Scalar(3), "ft")
    /\ call.default_units = "inch" /\ call.units = None
    /\ call.convert
    /\ result = Quantity(Scalar(36), "inch")

\* C6: an input that carries units, parsed with convert off, check_dims on
\* and default units set, comes back in its original units when the
\* dimensions agree and raises DimensionalityError when they differ.
C6_CheckDimsOnly ==
    (/\ Returned("parse")
     /\ CarriesUnits(call.in)
     /\ EffUnits # None
     /\ ~call.convert /\ call.check_dims) =>
        IF SameDims(call.in.u, EffUnits)
        THEN result = Quantity(call.in.m, call.in.u)
        ELSE Raised(result, "DimensionalityError")

C6_Witness ==
    /\ Returned("parse")
    /\ call.in = StrIn(Scalar(2), "ft")
    /\ call.default_units = "mm" /\ call.units = None
    /\ ~call.convert /\ call.check_dims
    /\ result = Quantity(Scalar(2), "ft")

\* C7: an input that carries units, parsed with convert off and check_dims
\* off, comes back unchanged and without error, also when the default
\* units are of another dimension.
C7_PassThrough ==
    /\ (/\ Returned("parse")
        /\ CarriesUnits(call.in)
        /\ ~call.convert /\ ~call.check_dims) =>
          result = Quantity(call.in.m, call.in.u)
    /\ (Returned("legacy") /\ CarriesUnits(call.in) /\ ~call.convert) =>
          result = Quantity(call.in.m, call.in.u)

C7_Witness ==
    /\ Returned("parse")
    /\ call.in = QtyIn(Scalar(2), "ft")
    /\ call.default_units = "s" /\ call.units = None
    /\ ~call.convert /\ ~call.check_dims
    /\ result = Quantity(Scalar(2), "ft")

\* C8: convert(x, u) of a bare number or array x returns x itself, as a
\* bare magnitude with no unit on it, for every target unit u.
C8_ConvertBare ==
    (Returned("convert") /\ call.in.kind = "number" /\ call.units # None) =>
        result = Bare(call.in.m)

C8_Witness ==
    /\ Returned("convert")
    /\ call.in = NumIn(Array(<<1, 0>>))
    /\ call.units = "s"
    /\ result = Bare(Array(<<1, 0>>))

\* the inputs the round trip is about: a bare number, or a (value, unit)
\* pair, Quantity or string in a unit of length
RoundTripInput(in) ==
    \/ in.kind = "number"
    \/ CarriesUnits(in) /\ SameDims(in.u, "mm")

\* |a - b| <= 1e-9 * |b|, element by element (a, b magnitudes)
WithinTolerance(a, b) ==
    /\ Len(a.v) = Len(b.v)
    /\ \A i \in DOMAIN a.v :
          Abs(a.v[i].n * b.v[i].d - b.v[i].n * a.v[i].d)
              <= Abs(b.v[i].n * a.v[i].d) \div 1000000000

\* C9 as claimed: convert(convert(x, 'mm'), 'inch') recovers the original
\* magnitude of x within tolerance, for a bare number, a (value, unit) pair,
\* a length Quantity or a unit string.
C9_RoundTripRecovers ==
    (Returned("round_trip") /\ RoundTripInput(call.in)) =>
        result.tag = "bare" /\ WithinTolerance(result.m, call.in.m)

\* C9 as amended: convert(convert(x, 'mm'), 'inch') returns the magnitude of
\* x expressed in mm (the inner call strips the unit and the outer call
\* takes the bare number as being in inches already); it is the original
\* magnitude of x when x is a bare number or is given in mm.
C9_RoundTripGivesMillimetres ==
    (Returned("round_trip") /\ RoundTripInput(call.in)) =>
        /\ call.in.kind = "number" => result = Bare(call.in.m)
        /\ CarriesUnits(call.in) =>
              result = Bare(InUnits(call.in.m, call.in.u, "mm"))
        /\ (CarriesUnits(call.in) /\ call.in.u = "mm") =>
              result = Bare(call.in.m)

C9_Witness ==
    /\ Returned("round_trip")
    /\ call.in = TupleIn(2, Scalar(2), "inch")
    /\ result = Bare([arr |-> FALSE, v |-> <<Rat(254, 5)>>])

KnownSdc(sdc) == Lower(sdc) \in DOMAIN MappedValueDict

\* C10: sf1 takes both ends of its period table as exclusive: T at or below
\* the first table period, or at or above the last, raises ValueError for
\* every category (known or not, so before anything is looked up), and
\* every T strictly between them returns a value for every category.
C10_Sf1ExclusiveBounds ==
    Returned("sf1") =>
        IF call.T <= T_INTERP[1] \/ call.T >= T_INTERP[Len(T_INTERP)]
        THEN Raised(result, "ValueError")
        ELSE KnownSdc(call.sdc) => result.tag = "bare"

C10_Witness ==
    /\ Returned("sf1")
    /\ call.T = T_INTERP[Len(T_INTERP)] - 1
    /\ call.sdc = "Dmin"
    /\ result.tag = "bare"

\* the straight line through rows i and i+1 of a table (xs integers, ys
\* rationals), at x: the two ordinates weighted by the distances
Linear(xs, ys, i, x) ==
    RDiv(RAdd(RMul(ys[i], Rat(xs[i + 1] - x, 1)),
              RMul(ys[i + 1], Rat(x - xs[i], 1))),
         Rat(xs[i + 1] - xs[i], 1))

\* rows i and i+1 of the axis xs bracket x
Brackets(xs, i, x) == xs[i] <= x /\ x <= xs[i + 1]

\* C11: for every T strictly inside the period table, sf1 returns
\* smt(T, sdc) divided by the linear interpolation between the two table
\* rows that bracket T, which is the table entry when T is a table period.
C11_Sf1Interpolates ==
    (/\ Returned("sf1")
     /\ T_INTERP[1] < call.T /\ call.T < T_INTERP[Len(T_INTERP)]
     /\ KnownSdc(call.sdc)) =>
        /\ \E i \in 1 .. Len(T_INTERP) - 1 : Brackets(T_INTERP, i, call.T)
        /\ \A i \in 1 .. Len(T_INTERP) - 1 :
              Brackets(T_INTERP, i, call.T) =>
                 result = Num(RDiv(Smt(call.T, call.sdc).m.v[1],
                                   Linear(T_INTERP, SNRT_INTERP, i, call.T)))
        /\ \A i \in DOMAIN T_INTERP :
              call.T = T_INTERP[i] =>
                 result = Num(RDiv(Smt(call.T, call.sdc).m.v[1],
                                   SNRT_INTERP[i]))

C11_Witness ==
    /\ Returned("sf1")
    /\ call.T = 55 /\ call.sdc = "Dmax"
    /\ result = Num(RDiv(Rat(3, 2), Rat(1349, 2000)))

\* the grid a category names when the module is loaded
ZLoaded(sdc) == ZHeap[ZRef[sdc]]

\* ssf's known categories: the six keys of _Z_SSF_DICT
KnownSsfSdc(sdc) == sdc \in DOMAIN ZRef

\* C12: in ssf, for a known category and mu_t >= 1, with T <= 0.5 the result
\* is decided by mu_t and the first row of the grid alone: the row's last
\* entry when mu_t >= 8, else the linear interpolation along the ductility
\* axis in that row; with T >= 1.5 the same holds of the last row.  (So the
\* result is the same for every T on one side.)
C12_SsfEdgeRows ==
    (/\ Returned("ssf")
     /\ KnownSsfSdc(call.sdc)
     /\ call.mu_t >= 10
     /\ (call.T <= 50 \/ call.T >= 150)) =>
        LET Z   == ZLoaded(call.sdc)
            row == IF call.T <= 50 THEN Z[1] ELSE Z[Len(Z)]
        IN  IF call.mu_t >= 80
            THEN result = Num(row[Len(row)])
            ELSE \A i \in 1 .. Len(X_MU_T) - 1 :
                    Brackets(X_MU_T, i, call.mu_t) =>
                       result = Num(Linear(X_MU_T, row, i, call.mu_t))

C12_Witness ==
    /\ Returned("ssf")
    /\ call.T = 45 /\ call.mu_t = 83 /\ call.sdc = "Dmax"
    /\ result = Num(Rat(133, 100))

\* C13: in ssf, for a known category, T strictly between 0.5 and 1.5 and
\* mu_t >= 8, the call succeeds and returns the linear interpolation along
\* the period axis, at T, of the last column of the grid.
C13_SsfLastColumn ==
    (/\ Returned("ssf")
     /\ KnownSsfSdc(call.sdc)
     /\ 50 < call.T /\ call.T < 150
     /\ call.mu_t >= 80) =>
        LET Z   == ZLoaded(call.sdc)
            col == [j \in DOMAIN Z |-> Z[j][Len(Z[j])]]
        IN  /\ result.tag = "bare"
            /\ \A j \in 1 .. Len(Y_T) - 1 :
                  Brackets(Y_T, j, call.T) =>
                     result = Num(Linear(Y_T, col, j, call.T))

\* C14: in ssf, for a known category, T strictly between 0.5 and 1.5 and
\* 1 <= mu_t < 8, the result is the bilinear interpolation of the grid at
\* (T, mu_t): here taken along the period axis in the two bracketing
\* columns, then along the ductility axis between them.  At a grid point it
\* is the table entry.
C14_SsfBilinear ==
    (/\ Returned("ssf")
     /\ KnownSsfSdc(call.sdc)
     /\ 50 < call.T /\ call.T < 150
     /\ 10 <= call.mu_t /\ call.mu_t < 80) =>
        LET Z == ZLoaded(call.sdc)
        IN  /\ \A i \in 1 .. Len(X_MU_T) - 1, j \in 1 .. Len(Y_T) - 1 :
                  (Brackets(X_MU_T, i, call.mu_t) /\ Brackets(Y_T, j, call.T))
                  => LET left  == OnLine(Y_T[j], Z[j][i],
                                         Y_T[j + 1], Z[j + 1][i], call.T)
                         right == OnLine(Y_T[j], Z[j][i + 1],
                                         Y_T[j + 1], Z[j + 1][i + 1], call.T)
                     IN  result = Num(OnLine(X_MU_T[i], left,
                                             X_MU_T[i + 1], right, call.mu_t))
            /\ \A i \in DOMAIN X_MU_T, j \in DOMAIN Y_T :
                  (call.mu_t = X_MU_T[i] /\ call.T = Y_T[j]) =>
                     result = Num(Z[j][i])

C14_Witness ==
    /\ Returned("ssf")
    /\ call.T = 95 /\ call.mu_t = 25 /\ call.sdc = "Cmin"
    /\ result = Num(Rat(223, 200))

\* C15: aliased categories resolve to the identical table, not a copy:
\* "cmax" and "dmin" name the same mapped-value object and "Cmax" and
\* "Dmin" the same SSF grid object, so a mapped_value or ssf call made with
\* one of the two names returns (or raises) what the same call with the
\* other name does.
C15_AliasesShareTables ==
    /\ tables.mapped_ref["cmax"] = tables.mapped_ref["dmin"]
    /\ tables.z_ref["Cmax"] = tables.z_ref["Dmin"]
    /\ (Returned("mapped_value") /\ call.sdc = "Cmax") =>
          result = MappedValue(call.value, "Dmin")
    /\ (Returned("mapped_value") /\ call.sdc = "Dmin") =>
          result = MappedValue(call.value, "Cmax")
    /\ (Returned("ssf") /\ call.sdc = "Cmax") =>
          result = Ssf(call.T, call.mu_t, "Dmin")
    /\ (Returned("ssf") /\ call.sdc = "Dmin") =>
          result = Ssf(call.T, call.mu_t, "Cmax")

C15_Witness ==
    /\ Returned("mapped_value")
    /\ call.sdc = "Cmax" /\ call.value = "SDS"
    /\ result = Mapped(MappedDmin.sds)

\* the error ssf raises for a key that is not in its table
UnknownCategoryError == "ValueError"

\* a key outside the six design categories, whatever its case
Unrecognized(sdc) == Lower(sdc) \notin DOMAIN MappedRef

\* C16: every category lookup (ssf, mapped_value, smt, sf1,
\* seismic_response_coeff) handed an unrecognized key returns no value and
\* fails with the same unknown-category error.
C16_SameUnknownCategoryError ==
    (/\ pc = "returned"
     /\ call.op \in {"ssf", "mapped_value", "smt", "sf1",
                     "seismic_response_coeff"}
     /\ Unrecognized(call.sdc)) =>
        Raised(result, UnknownCategoryError)

\* the value of a mapped parameter as a rational
MappedRat(value, sdc) ==
    Rat(MappedHeap[MappedRef[Lower(sdc)]][value].milli, 1000)

\* C17 as stated: with T at or below Ts the call returns SDS/R exactly.
C17_ReturnsSdsOverR ==
    (/\ Returned("seismic_response_coeff")
     /\ KnownSdc(call.sdc)
     /\ call.R > 0
     /\ RLe(Rat(call.T, 1000), MappedRat("ts", call.sdc))) =>
        result = Num(RDiv(MappedRat("sds", call.sdc), Rat(call.R, 1)))

\* C17: seismic_response_coeff(R, T, sdc) with T at or below the category's
\* Ts returns SDS/R floored at 0.01: SDS/R exactly when SDS/R is at least
\* 0.01, and 0.01 otherwise, for every category and every R > 0.
C17_SdsOverRFloored ==
    (/\ Returned("seismic_response_coeff")
     /\ KnownSdc(call.sdc)
     /\ call.R > 0
     /\ RLe(Rat(call.T, 1000), MappedRat("ts", call.sdc))) =>
        LET q == RDiv(MappedRat("sds", call.sdc), Rat(call.R, 1))
        IN  IF RLe(Rat(1, 100), q) THEN result = Num(q)
            ELSE result = Num(Rat(1, 100))

C17_Witness ==
    /\ Returned("seismic_response_coeff")
    /\ call.sdc = "Bmin" /\ call.R = 17 /\ call.T = 400
    /\ result = Num(Rat(1, 100))

\* C18: seismic_response_coeff(R, T, sdc) with T above the category's Ts
\* returns the greatest of SD1/(T*R), 0.044*SDS and 0.01, for every
\* category and every R > 0; the result is never below 0.01.
C18_AboveTsMaxOfThree ==
    (/\ Returned("seismic_response_coeff")
     /\ KnownSdc(call.sdc)
     /\ call.R > 0) =>
        /\ result.tag = "bare"
        /\ RLe(Rat(1, 100), result.m.v[1])
        /\ RLt(MappedRat("ts", call.sdc), Rat(call.T, 1000)) =>
             LET a == RDiv(MappedRat("sd1", call.sdc),
                           RMul(Rat(call.T, 1000), Rat(call.R, 1)))
                 b == RMul(Rat(44, 1000), MappedRat("sds", call.sdc))
                 c == Rat(1, 100)
                 r == result.m.v[1]
             IN  /\ r \in {a, b, c}
                 /\ RLe(a, r) /\ RLe(b, r) /\ RLe(c, r)

C18_Witness ==
    /\ Returned("seismic_response_coeff")
    /\ call.sdc = "Dmax" /\ call.R = 8 /\ call.T = 2000
    /\ result = Num(Rat(11, 250))

\* C19: table lookups never mutate the tables: in every state, after any
\* calls of mapped_value, smt, sf1, ssf and seismic_response_coeff, failing
\* ones included, the mapped-value sets, the sf1 curve, the SSF grids and
\* their axes hold the values of load time, and every key, the aliases
\* included, is bound to the object it was bound to at load time.
C19_TablesNeverMutated == tables = LoadedTables

C19_Witness ==
    /\ Returned("ssf")
    /\ call.sdc = "Cmax"
    /\ Raised(result, "ValueError")
    /\ tables = LoadedTables
    /\ tables.z_ref["Cmax"] = ZRef["Dmin"]

\* the Quantity the caller handed to the call
GivenQuantity == Quantity(call.in.m, call.in.u)

\* C20: parse and convert never mutate the Quantity they are given: after
\* the call, successful or failing, the caller's Quantity has the magnitude
\* and unit it had before; and when the call converts to a different unit,
\* what it returns is not the caller's object.
C20_GivenQuantityUntouched ==
    (/\ pc = "returned"
     /\ call.op \in {"parse", "convert"}
     /\ call.in.kind = "Quantity") =>
        /\ given = GivenQuantity
        /\ (result.tag # "raise" /\ result.u # call.in.u) => ~same

C20_Witness ==
    /\ Returned("parse")
    /\ call.in = QtyIn(Scalar(1), "inch")
    /\ call.default_units = "mm" /\ call.units = None /\ call.convert
    /\ result = Quantity(Scale(Scalar(1), Rat(127, 5)), "mm")
    /\ given = Quantity(Scalar(1), "inch")
    /\ ~same

\* C23: ssf validates its arguments in a fixed order before any lookup: an
\* unknown category is reported first, also when mu_t < 1; for a known
\* category every mu_t < 1 fails with the ductility ValueError for every T,
\* T <= 0.5 and T >= 1.5 included, so no branch of the boundary ladder is
\* reached with mu_t < 1.
C23_SsfValidationOrder ==
    Returned("ssf") =>
        /\ ~KnownSsfSdc(call.sdc) =>
              result = RaiseMsg("ValueError", UnknownCategoryMsg)
        /\ (KnownSsfSdc(call.sdc) /\ call.mu_t < 10) =>
              result = RaiseMsg("ValueError", DuctilityMsg)

C23_Witness ==
    /\ Returned("ssf")
    /\ call.sdc = "Emax" /\ call.mu_t = 8 /\ call.T = 45
    /\ result = RaiseMsg("ValueError", UnknownCategoryMsg)

\* C24: a string input that holds only a number (no unit in it) is handled
\* like any other input without units: with default units set the result
\* is that number tagged with them, with none set parse raises ValueError;
\* and every successful parse returns a unit-tagged Quantity, never a bare
\* number.
C24_NumberStringLikeBareNumber ==
    Returned("parse") =>
        /\ (call.in.kind = "str" /\ call.in.u = None /\ EffUnits # None) =>
              result = Quantity(call.in.m, EffUnits)
        /\ (call.in.kind = "str" /\ call.in.u = None /\ EffUnits = None) =>
              Raised(result, "ValueError")
        /\ result.tag # "raise" => IsQuantity(result)

\* C25: for every design category and every fixed R > 0,
\* seismic_response_coeff is non-increasing in the period: the value
\* returned for T is at most the value for every shorter period T1, also
\* across the Ts threshold.
C25_NonIncreasingInPeriod ==
    (/\ Returned("seismic_response_coeff")
     /\ KnownSdc(call.sdc)
     /\ call.R > 0) =>
        \A T1 \in CsPeriods :
            T1 < call.T =>
               RLe(result.m.v[1],
                   SeismicResponseCoeff(call.R, T1, call.sdc).m.v[1])

\* the grade a from_name call selects by: the keyword, or the second
\* positional argument
SelectedGrade == IF call.grade # None THEN call.grade ELSE call.second

\* the materials of the table that match the selectors a call gives
Selected ==
    {r \in MATERIALS :
        /\ r.name = call.name
        /\ SelectedGrade # None => r.grade = SelectedGrade
        /\ call.application # None => r.application = call.application}

\* C22: SteelMaterial.from_name selects a material by name, grade and
\* application, grade being the second positional argument or a keyword;
\* whenever the selectors given match exactly one material of the table,
\* it returns that material with the table's E, Fy, Fu, Ry and Rt.
C22_FromNameSelects ==
    (/\ Returned("from_name")
     /\ ~(call.grade # None /\ call.second # None)
     /\ Cardinality(Selected) = 1) =>
        \A r \in Selected :
            result = SteelMaterial(r.name, r.E, r.Fy, r.Fu, r.Ry, r.Rt)

\* TRUE when str starts with pre, and when it ends with suf
StartsWith(str, pre) ==
    Len(str) >= Len(pre) /\ SubSeq(str, 1, Len(pre)) = pre
EndsWith(str, suf) ==
    Len(str) >= Len(suf)
    /\ SubSeq(str, Len(str) - Len(suf) + 1, Len(str)) = suf

\* the width a boxsplit call works with
BoxWidth == OrElse(call.width, call.self.width)

\* C26: for a Boxer with a non-empty rule, wrap=True and a width that
\* leaves a positive text width, every line boxsplit(text, width) returns
\* has exactly width characters: the first and last lines are the top and
\* bottom rules (first ... right, left ... final), and every line between
\* them starts with left+lpad and ends with rpad+right, for every text.
C26_EveryLineHasWidth ==
    (/\ Returned("boxsplit")
     /\ Len(call.self.rule) >= 1
     /\ call.wrap
     /\ TextWidth(call.self, call.width) > 0) =>
        /\ result.tag = "lines"
        /\ Len(result.lines) >= 2
        /\ \A i \in DOMAIN result.lines : Len(result.lines[i]) = BoxWidth
        /\ StartsWith(result.lines[1], call.self.first)
        /\ EndsWith(result.lines[1], call.self.right)
        /\ StartsWith(result.lines[Len(result.lines)], call.self.left)
        /\ EndsWith(result.lines[Len(result.lines)], call.self.final)
        /\ \A i \in 2 .. Len(result.lines) - 1 :
              /\ StartsWith(result.lines[i], call.self.left \o call.self.lpad)
              /\ EndsWith(result.lines[i], call.self.rpad \o call.self.right)

\* what a call returns or raises when it runs alone
Alone(c) ==
    CASE c.op = "process_unit_input" ->
            ProcessUnitInput(c.in, c.default_units, c.convert, c.check_dims)
      [] c.op = "convert"      -> Convert(c.in, c.units)
      [] c.op = "ssf"          -> Ssf(c.T, c.mu_t, c.sdc)
      [] c.op = "sf1"          -> Sf1(c.T, c.sdc)
      [] c.op = "mapped_value" -> MappedValue(c.value, c.sdc)

\* C21: concurrent callers need no synchronization: in every interleaving
\* of concurrent process_unit_input / convert calls (with different default
\* units and flags) and ssf / sf1 / mapped_value calls, each call returns
\* the result or the error it returns when it runs alone; no call writes
\* the tables the lookups read.
C21_ConcurrentAsAlone ==
    /\ \A t \in Threads :
          threads[t].pc = "done" => threads[t].result = Alone(threads[t].call)
    /\ tables = LoadedTables

C21_Witness ==
    /\ threads[1].pc = "done" /\ threads[1].overlapped
    /\ threads[1].call = [op |-> "process_unit_input",
                          in |-> QtyIn(Scalar(1), "inch"),
                          default_units |-> "mm", convert |-> TRUE,
                          check_dims |-> FALSE]
    /\ threads[1].result = Quantity(Scale(Scalar(1), Rat(127, 5)), "mm")
    /\ threads[2].pc = "parsed"
    /\ threads[2].call.op = "process_unit_input"
    /\ threads[2].call.default_units = "psi"
    /\ ~threads[2].call.convert

====
